---- MODULE Spec2Model ----
(***************************************************************************)
(* A model of the RESP codec (gfreezy/resp): the Value type, the nom-based *)
(* streaming parser (src/src/parser.rs), the encoder                       *)
(* (src/src/serialize.rs) and Value::parse / Value::serialize_len          *)
(* (src/src/value.rs).                                                     *)
(*                                                                         *)
(* Bytes are their ASCII codes.  A slice is a sequence of bytes.  An i64   *)
(* is kept in sign-magnitude form with the magnitude in three base-10^7    *)
(* limbs, so that the whole 64-bit range (and its overflow) is exact even  *)
(* though the checker's integers are 32 bits wide.  usize is taken to be   *)
(* 64 bits wide (`size as usize` is exact for a non-negative i64), and     *)
(* allocation is taken to succeed.                                         *)
(***************************************************************************)
EXTENDS Integers, Sequences, FiniteSets, TLC

VARIABLES value, buf0, buf, ret, data, outcome, pc

vars == <<value, buf0, buf, ret, data, outcome, pc>>

----------------------------------------------------------------------------
(* Bytes *)

PLUS == 43
MINUS == 45
COLON == 58
DOLLAR == 36
STAR == 42
CR == 13
LF == 10
ZERO == 48
NINE == 57
LOWER_A == 97

CRLF_BYTES == <<CR, LF>>

Min(S) == CHOOSE x \in S : \A y \in S : x <= y

\* buf[from..] with a 0-based start, as Rust's &buf[from..]
SliceFrom(s, from) == SubSeq(s, from + 1, Len(s))

\* buf[0..to] with a 0-based exclusive end, as Rust's &buf[0..to]
SliceTo(s, to) == SubSeq(s, 1, to)

----------------------------------------------------------------------------
(* i64: [neg, mag], mag = <<h, m, l>> standing for h*10^14 + m*10^7 + l.   *)
(* Zero is never negative.                                                 *)

LimbBase == 10000000

I64(neg, mag) == [neg |-> neg /\ mag # <<0, 0, 0>>, mag |-> mag]

\* an i64 from a checker integer
I64Of(n) ==
    LET a == IF n < 0 THEN -n ELSE n
    IN  I64(n < 0, <<0, a \div LimbBase, a % LimbBase>>)

\* i64::MAX = 9223372036854775807 and the magnitude of i64::MIN
I64MaxMag == <<92233, 7203685, 4775807>>
I64MinMag == <<92233, 7203685, 4775808>>
I64Max == I64(FALSE, I64MaxMag)
I64Min == I64(TRUE, I64MinMag)

MagLeq(a, b) ==
    \/ a[1] < b[1]
    \/ a[1] = b[1] /\ a[2] < b[2]
    \/ a[1] = b[1] /\ a[2] = b[2] /\ a[3] <= b[3]

\* mag * 10 + d, carried through the limbs (the top limb is left unbounded)
MagMul10Add(mag, d) ==
    LET l == mag[3] * 10 + d
        m == mag[2] * 10 + (l \div LimbBase)
        h == mag[1] * 10 + (m \div LimbBase)
    IN  <<h, m % LimbBase, l % LimbBase>>

IsNegative(i) == i.neg
IsZero(i) == i.mag = <<0, 0, 0>>

\* i == n for a usize n small enough to be a checker integer
EqualsUsize(i, n) == ~i.neg /\ i.mag = <<0, n \div LimbBase, n % LimbBase>>

\* (i as usize) <= n
AtMostUsize(i, n) == ~i.neg /\ MagLeq(i.mag, <<0, n \div LimbBase, n % LimbBase>>)

\* i as usize, for an i known to be at most some checker integer
AsUsize(i) == i.mag[2] * LimbBase + i.mag[3]

IsDigit(b) == b >= ZERO /\ b <= NINE

\* the decimal digits of a natural number, most significant first
RECURSIVE DecDigits(_)
DecDigits(n) ==
    IF n < 10 THEN <<ZERO + n>>
    ELSE DecDigits(n \div 10) \o <<ZERO + (n % 10)>>

\* a limb below the top one: exactly seven digits
RECURSIVE PadLimb(_, _)
PadLimb(n, width) ==
    IF width = 0 THEN <<>>
    ELSE PadLimb(n \div 10, width - 1) \o <<ZERO + (n % 10)>>

MagToString(mag) ==
    IF mag[1] > 0 THEN DecDigits(mag[1]) \o PadLimb(mag[2], 7) \o PadLimb(mag[3], 7)
    ELSE IF mag[2] > 0 THEN DecDigits(mag[2]) \o PadLimb(mag[3], 7)
    ELSE DecDigits(mag[3])

\* i64::to_string
i64_to_string(i) ==
    IF i.neg THEN <<MINUS>> \o MagToString(i.mag) ELSE MagToString(i.mag)

\* usize::to_string
usize_to_string(n) == DecDigits(n)

\* The digit loop of <i64 as FromStr>::from_str: checked_mul(10) and then
\* checked_add (checked_sub for a negative number) of each digit; any byte
\* that is no digit, or an overflow, is an error.
RECURSIVE FromDigits(_, _, _, _)

\* FromDigits holding a negative number to the positive limit
FromDigits_OneLimit(digits, k, neg, mag) ==
    IF k > Len(digits) THEN [ok |-> TRUE, val |-> I64(neg, mag)]
    ELSE IF ~IsDigit(digits[k]) THEN [ok |-> FALSE]
    ELSE LET next == MagMul10Add(mag, digits[k] - ZERO)
         IN  IF MagLeq(next, I64MaxMag)
             THEN FromDigits(digits, k + 1, neg, next)
             ELSE [ok |-> FALSE]

FromDigits(digits, k, neg, mag) ==
    IF k > Len(digits) THEN [ok |-> TRUE, val |-> I64(neg, mag)]
    ELSE IF ~IsDigit(digits[k]) THEN [ok |-> FALSE]
    ELSE LET next == MagMul10Add(mag, digits[k] - ZERO)
             limit == IF neg THEN I64MinMag ELSE I64MaxMag
         IN  IF MagLeq(next, limit)
             THEN FromDigits(digits, k + 1, neg, next)
             ELSE [ok |-> FALSE]

\* str::parse::<i64>: an empty string and a lone sign are errors; one
\* leading '+' or '-' is accepted.
i64_from_str(s) ==
    IF Len(s) = 0 THEN [ok |-> FALSE]
    ELSE IF s[1] \in {PLUS, MINUS}
         THEN IF Len(s) = 1 THEN [ok |-> FALSE]
              ELSE FromDigits(Tail(s), 1, s[1] = MINUS, <<0, 0, 0>>)
         ELSE FromDigits(s, 1, FALSE, <<0, 0, 0>>)

----------------------------------------------------------------------------
(* Value *)

\* Each variant keeps its payload in a field of its own.
SimpleString(s) == [tag |-> "SimpleString", str |-> s]
Error(s) == [tag |-> "Error", str |-> s]
Integer(i) == [tag |-> "Integer", int |-> i]
BulkString(o) == [tag |-> "BulkString", bulk |-> o]
Array(o) == [tag |-> "Array", array |-> o]

\* Option<T>: None is the empty tuple, Some(x) the one-element tuple
None == <<>>
Some(x) == <<x>>
IsSome(o) == Len(o) = 1
Unwrap(o) == o[1]

is_null(v) ==
    \/ v.tag = "Array" /\ v.array = None
    \/ v.tag = "BulkString" /\ v.bulk = None

is_error(v) == v.tag = "Error"

----------------------------------------------------------------------------
(* nom's IResult, and a panic as a fourth outcome that unwinds through     *)
(* every caller                                                            *)

Ok(left, out) == [kind |-> "Ok", left |-> left, out |-> out]
ErrError == [kind |-> "Error"]
ErrIncomplete == [kind |-> "Incomplete"]
Panic == [kind |-> "Panic"]
IsOk(r) == r.kind = "Ok"

\* tag taking any one byte, as take(1) would
tag_AnyByte(t, b) ==
    IF Len(b) = 0 THEN ErrIncomplete ELSE Ok(Tail(b), <<b[1]>>)

\* nom::bytes::streaming::tag for a one-byte tag
tag(t, b) ==
    IF Len(b) = 0 THEN ErrIncomplete
    ELSE IF b[1] = t THEN Ok(Tail(b), <<t>>)
    ELSE ErrError

\* nom::character::streaming::crlf
crlf(b) ==
    IF \E i \in 1..2 : i <= Len(b) /\ b[i] # CRLF_BYTES[i] THEN ErrError
    ELSE IF Len(b) >= 2 THEN Ok(SliceFrom(b, 2), CRLF_BYTES)
    ELSE ErrIncomplete

\* nom::character::streaming::digit1
digit1(b) ==
    LET stops == {i \in 0..(Len(b) - 1) : ~IsDigit(b[i + 1])}
    IN  IF stops = {} THEN ErrIncomplete
        ELSE IF Min(stops) = 0 THEN ErrError
        ELSE Ok(SliceFrom(b, Min(stops)), SliceTo(b, Min(stops)))

\* nom::bytes::streaming::take(size as usize)
take(size, b) ==
    IF AtMostUsize(size, Len(b))
    THEN Ok(SliceFrom(b, AsUsize(size)), SliceTo(b, AsUsize(size)))
    ELSE ErrIncomplete

\* nom::combinator::opt
opt(r, b) ==
    IF r.kind = "Ok" THEN Ok(r.left, Some(r.out))
    ELSE IF r.kind = "Error" THEN Ok(b, None)
    ELSE r

----------------------------------------------------------------------------
(* parser.rs *)

\* not_crlf with the loop over 0..(buf.len() - 2): the last pair of bytes
\* is never looked at
not_crlf_ShortScan(b) ==
    IF Len(b) <= 1 THEN Panic
    ELSE LET hits == {i \in 0..(Len(b) - 3) : b[i + 1] = CR /\ b[i + 2] = LF}
             index == IF hits = {} THEN 0 ELSE Min(hits)
         IN  Ok(SliceFrom(b, index), SliceTo(b, index))

\* buf.len() - 1 underflows on an empty slice: a panic in a debug build;
\* in a release build the range becomes 0..usize::MAX and buf[0] is out of
\* bounds, a panic as well.
not_crlf(b) ==
    IF Len(b) = 0 THEN Panic
    ELSE LET hits == {i \in 0..(Len(b) - 2) : b[i + 1] = CR /\ b[i + 2] = LF}
             index == IF hits = {} THEN 0 ELSE Min(hits)
         IN  Ok(SliceFrom(b, index), SliceTo(b, index))

\* nom::sequence::terminated, given the first parser's result and the
\* second's on what the first left: the second is consumed, the first's
\* output kept
terminated(first, second) ==
    IF ~IsOk(second) THEN second ELSE Ok(second.left, first.out)

\* terminated(not_crlf, crlf), given not_crlf's result
NotCrlfThenCrlf(r) == IF ~IsOk(r) THEN r ELSE terminated(r, crlf(r.left))

\* nom::sequence::preceded(tag(sigil), terminated(not_crlf, crlf)), given
\* the tag's result
PrecededLine(t) == IF ~IsOk(t) THEN t ELSE NotCrlfThenCrlf(not_crlf(t.left))

simple_string(b) == PrecededLine(tag(PLUS, b))

error(b) == PrecededLine(tag(MINUS, b))

parse_integer(flag, num) ==
    i64_from_str(IF IsSome(flag) THEN Unwrap(flag) \o num ELSE num)

\* nom::combinator::map_res(.., parse_integer), given the pair's outputs,
\* what the pair left and parse_integer's result
MapRes(left, p) == IF p.ok THEN Ok(left, p.val) ELSE ErrError

\* the digit1 half of pair(opt(tag(b"-")), digit1), given the flag
PairDigits(flag, d) ==
    IF ~IsOk(d) THEN d ELSE MapRes(d.left, parse_integer(flag, d.out))

\* pair(opt(tag(b"-")), digit1), given the opt's result
PairFlag(f) == IF ~IsOk(f) THEN f ELSE PairDigits(f.out, digit1(f.left))

\* map_res(pair(opt(tag(b"-")), digit1), parse_integer)
string_integer(b) == PairFlag(opt(tag(MINUS, b), b))

\* terminated(string_integer, crlf), given string_integer's result
IntegerThenCrlf(r) == IF ~IsOk(r) THEN r ELSE terminated(r, crlf(r.left))

\* preceded(tag(..), terminated(string_integer, crlf)), given the tag's
\* result; bulk_string and array start with the same three steps
PrecededInteger(t) ==
    IF ~IsOk(t) THEN t ELSE IntegerThenCrlf(string_integer(t.left))

integer(b) == PrecededInteger(tag(COLON, b))

\* BulkTerminator without the crlf after the payload
BulkTerminator_Unchecked(r) == IF ~IsOk(r) THEN r ELSE Ok(r.left, Some(r.out))

\* `let (left, _) = crlf(left)?; Ok((left, Some(bulk_str)))`, given take's
\* result
BulkTerminator(r) ==
    IF ~IsOk(r) THEN r ELSE terminated(Ok(r.left, Some(r.out)), crlf(r.left))

\* BulkPayload with `if size > 0` for `if size >= 0`
BulkPayload_PositiveOnly(h) ==
    IF ~IsOk(h) THEN h
    ELSE IF ~IsNegative(h.out) /\ ~IsZero(h.out)
    THEN BulkTerminator(take(h.out, h.left))
    ELSE Ok(h.left, None)

\* bulk_string from `if size >= 0` on, given the header's result
BulkPayload(h) ==
    IF ~IsOk(h) THEN h
    ELSE IF ~IsNegative(h.out) THEN BulkTerminator(take(h.out, h.left))
    ELSE Ok(h.left, None)

bulk_string(b) == BulkPayload(PrecededInteger(tag(DOLLAR, b)))

RECURSIVE resp_value(_)
RECURSIVE many_m_n(_, _, _, _)

\* one turn of many_m_n's loop, given f(input)
ManyStep(m, n, input, res, r) ==
    IF r.kind = "Ok"
    THEN IF r.left = input THEN ErrError
         ELSE IF EqualsUsize(n, Len(res) + 1)
              THEN Ok(r.left, Append(res, r.out))
              ELSE many_m_n(m, n, r.left, Append(res, r.out))
    ELSE IF r.kind = "Error"
    THEN IF ~AtMostUsize(m, Len(res)) THEN ErrError ELSE Ok(input, res)
    ELSE r

\* nom::multi::many_m_n(m, n, resp_value) from its loop on: `input` is
\* what is left, `res` the items so far (count = Len(res)).  n > 0 here.
many_m_n(m, n, input, res) == ManyStep(m, n, input, res, resp_value(input))

\* `Ok((left, Some(v)))`, given many_m_n's result
ArrayItems(r) == IF ~IsOk(r) THEN r ELSE Ok(r.left, Some(r.out))

\* ArrayBody with many_m_n(0, size, ..) for many_m_n(size, size, ..)
ArrayBody_NoMinimum(h) ==
    IF ~IsOk(h) THEN h
    ELSE IF IsNegative(h.out) THEN Ok(h.left, None)
    ELSE IF IsZero(h.out) THEN Ok(h.left, Some(<<>>))
    ELSE ArrayItems(many_m_n(I64Of(0), h.out, h.left, <<>>))

\* array from `if size < 0` on, given the header's result
ArrayBody(h) ==
    IF ~IsOk(h) THEN h
    ELSE IF IsNegative(h.out) THEN Ok(h.left, None)
    ELSE IF IsZero(h.out) THEN Ok(h.left, Some(<<>>))
    ELSE ArrayItems(many_m_n(h.out, h.out, h.left, <<>>))

array(b) == ArrayBody(PrecededInteger(tag(STAR, b)))

\* One arm of resp_value's chain: the parser's result with its output
\* wrapped in the variant.
ArmSimpleString(r) == IF IsOk(r) THEN Ok(r.left, SimpleString(r.out)) ELSE r
ArmError(r) == IF IsOk(r) THEN Ok(r.left, Error(r.out)) ELSE r
ArmInteger(r) == IF IsOk(r) THEN Ok(r.left, Integer(r.out)) ELSE r
ArmBulkString(r) == IF IsOk(r) THEN Ok(r.left, BulkString(r.out)) ELSE r
ArmArray(r) == IF IsOk(r) THEN Ok(r.left, Array(r.out)) ELSE r

\* The chain takes the first arm that is Ok.  `if let Ok(..) = p(buf)`
\* drops every Err of p, Incomplete included, and goes on to the next
\* parser; when all five fail the result is Err(Error((buf, Alt))).  A
\* panic in an arm that is reached leaves the chain (an arm is reached
\* when no arm before it is Ok).
FirstOk(arms) ==
    LET stops == {k \in 1..Len(arms) : arms[k].kind \in {"Ok", "Panic"}}
    IN  IF stops = {} THEN ErrError ELSE arms[Min(stops)]

resp_value(b) ==
    FirstOk(<<ArmSimpleString(simple_string(b)), ArmError(error(b)),
              ArmInteger(integer(b)), ArmBulkString(bulk_string(b)),
              ArmArray(array(b))>>)

parse_resp_value(b) == resp_value(b)

\* Value::parse
ParseResult(r) ==
    IF r.kind = "Ok" THEN r
    ELSE IF r.kind = "Incomplete" THEN [kind |-> "NeedMoreData"]
    ELSE IF r.kind = "Error" THEN [kind |-> "InvalidData"]
    ELSE r

Value_parse(b) == ParseResult(parse_resp_value(b))

----------------------------------------------------------------------------
(* value.rs: serialize_len, and serialize.rs: encode *)

CRLF_LEN == 2

\* b"-1"
MINUS_ONE == <<MINUS, ZERO + 1>>

RECURSIVE serialize_len(_)

\* array.iter().map(|s| s.serialize_len()).sum::<usize>()
RECURSIVE SumSerializeLen(_, _)
SumSerializeLen(array_, k) ==
    IF k > Len(array_) THEN 0
    ELSE serialize_len(array_[k]) + SumSerializeLen(array_, k + 1)

\* serialize_len with the bulk string's own terminator left out
serialize_len_ShortBulk(v) ==
    CASE v.tag = "SimpleString" -> 1 + Len(v.str) + CRLF_LEN
      [] v.tag = "Error" -> 1 + Len(v.str) + CRLF_LEN
      [] v.tag = "Integer" -> 1 + Len(i64_to_string(v.int)) + CRLF_LEN
      [] v.tag = "BulkString" /\ ~IsSome(v.bulk) -> 1 + Len(MINUS_ONE) + CRLF_LEN
      [] v.tag = "BulkString" /\ IsSome(v.bulk) ->
            1 + Len(usize_to_string(Len(Unwrap(v.bulk)))) + CRLF_LEN
              + Len(Unwrap(v.bulk))
      [] v.tag = "Array" /\ ~IsSome(v.array) -> 1 + Len(MINUS_ONE) + CRLF_LEN
      [] v.tag = "Array" /\ IsSome(v.array) ->
            1 + Len(usize_to_string(Len(Unwrap(v.array)))) + CRLF_LEN
              + SumSerializeLen(Unwrap(v.array), 1)

serialize_len(v) ==
    CASE v.tag = "SimpleString" -> 1 + Len(v.str) + CRLF_LEN
      [] v.tag = "Error" -> 1 + Len(v.str) + CRLF_LEN
      [] v.tag = "Integer" -> 1 + Len(i64_to_string(v.int)) + CRLF_LEN
      [] v.tag = "BulkString" /\ ~IsSome(v.bulk) -> 1 + Len(MINUS_ONE) + CRLF_LEN
      [] v.tag = "BulkString" /\ IsSome(v.bulk) ->
            1 + Len(usize_to_string(Len(Unwrap(v.bulk)))) + CRLF_LEN
              + Len(Unwrap(v.bulk)) + CRLF_LEN
      [] v.tag = "Array" /\ ~IsSome(v.array) -> 1 + Len(MINUS_ONE) + CRLF_LEN
      [] v.tag = "Array" /\ IsSome(v.array) ->
            1 + Len(usize_to_string(Len(Unwrap(v.array)))) + CRLF_LEN
              + SumSerializeLen(Unwrap(v.array), 1)

\* BufMut::put_u8 and BufMut::put_slice on a BytesMut: both append
put_u8(b, x) == Append(b, x)

\* put_slice writing at the start of the buffer, over what is there
put_slice_Overwrite(b, s) == s \o SliceFrom(b, IF Len(s) < Len(b) THEN Len(s) ELSE Len(b))

put_slice(b, s) == b \o s

\* what a call of encode leaves: the buffer, the count it returns, and
\* whether an assert_eq!(len, value_len) failed on the way
Encoded(b, len, panicked) == [buf |-> b, len |-> len, panicked |-> panicked]

RECURSIVE encode(_, _)

\* for item in val { encode(item, buf); }
RECURSIVE EncodeItems(_, _, _)
EncodeNext(items, k, e) ==
    IF e.panicked THEN e ELSE EncodeItems(items, k + 1, e.buf)

EncodeItems(items, k, b) ==
    IF k > Len(items) THEN Encoded(b, 0, FALSE)
    ELSE EncodeNext(items, k, encode(items[k], b))

\* the match of encode: the buffer after the arm for v has run
EncodeArm(v, b) ==
    CASE v.tag = "SimpleString" ->
            Encoded(put_slice(put_slice(put_u8(b, PLUS), v.str), CRLF_BYTES), 0, FALSE)
      [] v.tag = "Error" ->
            Encoded(put_slice(put_slice(put_u8(b, MINUS), v.str), CRLF_BYTES), 0, FALSE)
      [] v.tag = "Integer" ->
            Encoded(put_slice(put_slice(put_u8(b, COLON), i64_to_string(v.int)),
                              CRLF_BYTES), 0, FALSE)
      [] v.tag = "BulkString" /\ ~IsSome(v.bulk) ->
            Encoded(put_slice(put_slice(put_u8(b, DOLLAR), MINUS_ONE), CRLF_BYTES),
                    0, FALSE)
      [] v.tag = "BulkString" /\ IsSome(v.bulk) ->
            Encoded(put_slice(put_slice(put_slice(put_slice(put_u8(b, DOLLAR),
                        usize_to_string(Len(Unwrap(v.bulk)))), CRLF_BYTES),
                        Unwrap(v.bulk)), CRLF_BYTES), 0, FALSE)
      [] v.tag = "Array" /\ ~IsSome(v.array) ->
            Encoded(put_slice(put_slice(put_u8(b, STAR), MINUS_ONE), CRLF_BYTES),
                    0, FALSE)
      [] v.tag = "Array" /\ IsSome(v.array) ->
            EncodeItems(Unwrap(v.array), 1,
                        put_slice(put_slice(put_u8(b, STAR),
                            usize_to_string(Len(Unwrap(v.array)))), CRLF_BYTES))

\* `let len = buf.len() - initial; assert_eq!(len, value_len); len`
EncodeEnd(initial, value_len, arm) ==
    IF arm.panicked THEN arm
    ELSE Encoded(arm.buf, Len(arm.buf) - initial,
                 Len(arm.buf) - initial # value_len)

encode(v, b) == EncodeEnd(Len(b), serialize_len(v), EncodeArm(v, b))

----------------------------------------------------------------------------
(* The values and the byte strings the operations are applied to *)

MaxPayloadLen == 2
MaxItems == 2
MaxRawLen == 4
MaxNumLen == 3
MaxFrames == 3

SeqsUpTo(S, n) == UNION {[1..k -> S] : k \in 0..n}

RECURSIVE Flatten(_)
Flatten(ss) == IF ss = <<>> THEN <<>> ELSE Head(ss) \o Flatten(Tail(ss))

Payloads == SeqsUpTo({LOWER_A, CR, LF}, MaxPayloadLen)

Ints ==
    {I64Of(0), I64Of(7), I64Of(-31), I64Of(10), I64Of(-1), I64Of(123456789),
     I64Of(-123456789), I64Of(9999999), I64Of(10000000), I64Max, I64Min,
     I64(FALSE, <<0, 9999999, 9999999>>), I64(TRUE, <<1, 0, 0>>),
     I64(FALSE, <<7, 1, 10>>)}

Scalars ==
    {SimpleString(p) : p \in Payloads} \cup {Error(p) : p \in Payloads}
      \cup {BulkString(Some(p)) : p \in Payloads} \cup {Integer(i) : i \in Ints}
      \cup {BulkString(None), Array(None)}

Leaves ==
    {SimpleString(<<LOWER_A>>), Error(<<CR>>), Integer(I64Of(-31)),
     BulkString(None), BulkString(Some(<<CR, LF>>)), Array(None),
     SimpleString(<<CR, LF>>)}

FlatArrays == {Array(Some(s)) : s \in SeqsUpTo(Leaves, MaxItems)}

Wrap(S) ==
    {Array(Some(<<x>>)) : x \in S}
      \cup {Array(Some(<<x, Integer(I64Of(7))>>)) : x \in S}
      \cup {Array(Some(<<Error(<<LOWER_A>>), x>>)) : x \in S}

Values == Scalars \cup FlatArrays \cup Wrap(FlatArrays) \cup Wrap(Wrap(FlatArrays))

\* what the buffer may hold before encode is called
Prefixes == {<<>>, <<LOWER_A, CR>>}

\* the sigils, CR, LF, '1', 'a' and '#' (a byte that is no sigil)
RawAlphabet == {PLUS, MINUS, COLON, DOLLAR, STAR, CR, LF, ZERO + 1, LOWER_A, 35}

RawInputs == SeqsUpTo(RawAlphabet, MaxRawLen)

\* 9223372036854775807, ...808 and 99999999999999999999 as digits
MaxDigits == i64_to_string(I64Max)
MaxPlusOneDigits == Tail(i64_to_string(I64Min))
TwentyNines == [k \in 1..20 |-> NINE]

NumTexts ==
    SeqsUpTo({MINUS, PLUS, ZERO, ZERO + 7}, MaxNumLen)
      \cup {MaxDigits, MaxPlusOneDigits, <<MINUS>> \o MaxDigits,
            <<MINUS>> \o MaxPlusOneDigits, <<MINUS>> \o SliceTo(MaxDigits, 18) \o <<NINE>>,
            <<ZERO, ZERO>> \o MaxDigits, <<PLUS>> \o MaxDigits, TwentyNines,
            <<MINUS>> \o TwentyNines, SliceTo(MaxDigits, 18)}

NumTails ==
    {<<>>, CRLF_BYTES, CRLF_BYTES \o CRLF_BYTES, <<CR>>, <<LOWER_A>> \o CRLF_BYTES,
     CRLF_BYTES \o <<LOWER_A>> \o CRLF_BYTES}

NumericInputs ==
    {<<s>> \o t \o e : s \in {COLON, DOLLAR, STAR}, t \in NumTexts, e \in NumTails}

CountTexts ==
    {<<MINUS, ZERO + 1>>, <<ZERO>>, <<ZERO + 1>>, <<ZERO + 2>>, <<ZERO + 3>>,
     <<MINUS, ZERO + 7>>, <<ZERO, ZERO + 2>>}

\* what may follow a bulk string's payload
BulkTails ==
    {<<>>, CRLF_BYTES, <<CR>>, <<LOWER_A>>, <<CR, LOWER_A>>, <<LOWER_A, LF>>,
     CRLF_BYTES \o <<LOWER_A>>, CRLF_BYTES \o <<PLUS, LOWER_A>> \o CRLF_BYTES}

BulkInputs ==
    {<<DOLLAR>> \o c \o CRLF_BYTES \o p \o e :
        c \in CountTexts, p \in Payloads, e \in BulkTails}

\* what may follow an array's header: items, whole, cut short or malformed
Frames ==
    {<<COLON, ZERO + 1>> \o CRLF_BYTES, <<PLUS, LOWER_A>> \o CRLF_BYTES,
     <<DOLLAR, MINUS, ZERO + 1>> \o CRLF_BYTES, <<STAR, ZERO + 1>> \o CRLF_BYTES,
     <<PLUS>>, <<LOWER_A>>, <<COLON, ZERO + 1>>}

ArrayInputs ==
    {<<STAR>> \o c \o CRLF_BYTES \o Flatten(fs) :
        c \in CountTexts, fs \in SeqsUpTo(Frames, MaxFrames)}

StructInputs == BulkInputs \cup ArrayInputs

LineRests ==
    {<<>>, <<LOWER_A>>, CRLF_BYTES, <<PLUS, LOWER_A>> \o CRLF_BYTES, <<CR>>}

LineInputs ==
    {<<s>> \o p \o CRLF_BYTES \o rest :
        s \in {PLUS, MINUS}, p \in Payloads, rest \in LineRests}

Inputs == RawInputs \cup NumericInputs \cup StructInputs \cup LineInputs

----------------------------------------------------------------------------
(* The state machine: a caller holds either a Value to encode (and then    *)
(* decodes what it encoded, whole or cut short) or bytes to decode.        *)

NoOutcome == [kind |-> "None"]

Init ==
    \/ /\ value \in Values
       /\ buf0 \in Prefixes
       /\ buf = buf0
       /\ ret = 0
       /\ data = <<>>
       /\ outcome = NoOutcome
       /\ pc = "encode"
    \/ /\ value = BulkString(None)
       /\ buf0 = <<>>
       /\ buf = <<>>
       /\ ret = 0
       /\ data \in Inputs
       /\ outcome = NoOutcome
       /\ pc = "decode"

\* value.encode(&mut buf)
Encode ==
    /\ pc = "encode"
    /\ \E e \in {encode(value, buf)} :
          /\ buf' = e.buf
          /\ ret' = e.len
          /\ pc' = IF e.panicked THEN "encode_panicked" ELSE "encoded"
    /\ UNCHANGED <<value, buf0, data, outcome>>

\* Value::parse(&value.to_vec())
ParseEncoded ==
    /\ pc = "encoded"
    /\ buf0 = <<>>
    /\ data' = buf
    /\ outcome' = Value_parse(buf)
    /\ pc' = "roundtrip"
    /\ UNCHANGED <<value, buf0, buf, ret>>

\* Value::parse(&value.to_vec()[..k]) for a k short of the whole
ParseTruncated ==
    /\ pc = "encoded"
    /\ buf0 = <<>>
    /\ \E k \in 0..(Len(buf) - 1) :
          /\ data' = SliceTo(buf, k)
          /\ outcome' = Value_parse(data')
    /\ pc' = "truncated"
    /\ UNCHANGED <<value, buf0, buf, ret>>

\* Value::parse(data)
Parse ==
    /\ pc = "decode"
    /\ outcome' = Value_parse(data)
    /\ pc' = "parsed"
    /\ UNCHANGED <<value, buf0, buf, ret, data>>

Next == Encode \/ ParseEncoded \/ ParseTruncated \/ Parse

Spec == Init /\ [][Next]_vars

Decoded == pc \in {"parsed", "roundtrip", "truncated"}

----------------------------------------------------------------------------
(* Notions the claims are stated with *)

InvalidData == [kind |-> "InvalidData"]
NeedMoreData == [kind |-> "NeedMoreData"]

Sigils == {PLUS, MINUS, COLON, DOLLAR, STAR}

VariantOf(byte) ==
    CASE byte = PLUS -> "SimpleString"
      [] byte = MINUS -> "Error"
      [] byte = COLON -> "Integer"
      [] byte = DOLLAR -> "BulkString"
      [] byte = STAR -> "Array"

\* s holds CR LF at 0-based offset n
CrlfAt(s, n) == n + 2 <= Len(s) /\ s[n + 1] = CR /\ s[n + 2] = LF

NoCrlfPair(s) == \A n \in 0..(Len(s) - 2) : ~CrlfAt(s, n)

\* no SimpleString or Error payload of v, at any depth, holds a CR LF pair
RECURSIVE TerminatorFree(_)
TerminatorFree(v) ==
    CASE v.tag \in {"SimpleString", "Error"} -> NoCrlfPair(v.str)
      [] v.tag = "Array" /\ IsSome(v.array) ->
            \A k \in 1..Len(Unwrap(v.array)) : TerminatorFree(Unwrap(v.array)[k])
      [] OTHER -> TRUE

IsArrayOfSome(v) == v.tag = "Array" /\ IsSome(v.array) /\ Len(Unwrap(v.array)) > 0

\* an array with an array of at least two items as its first item
IsNested(v) ==
    /\ IsArrayOfSome(v)
    /\ IsArrayOfSome(Unwrap(v.array)[1])
    /\ Len(Unwrap(Unwrap(v.array)[1].array)) >= 2

\* the bytes of s before its first CR (all of s when it has none)
FieldOf(s) ==
    LET crs == {n \in 0..(Len(s) - 1) : s[n + 1] = CR}
    IN  IF crs = {} THEN s ELSE SliceTo(s, Min(crs))

AllDigits(d) == \A k \in 1..Len(d) : IsDigit(d[k])

\* an optional single '-' and then one or more digits
IsSignedDecimal(t) ==
    /\ Len(t) >= 1
    /\ IF t[1] = MINUS THEN Len(t) >= 2 /\ AllDigits(Tail(t)) ELSE AllDigits(t)

HasMinus(t) == Len(t) >= 1 /\ t[1] = MINUS

DigitsOf(t) == IF HasMinus(t) THEN Tail(t) ELSE t

\* d without its leading zeros (one digit is always left)
RECURSIVE StripZeros(_)
StripZeros(d) ==
    IF Len(d) > 1 /\ d[1] = ZERO THEN StripZeros(Tail(d)) ELSE d

\* the value of at most nine digits
RECURSIVE NatOfDigits(_)
NatOfDigits(d) ==
    IF d = <<>> THEN 0
    ELSE NatOfDigits(SliceTo(d, Len(d) - 1)) * 10 + (d[Len(d)] - ZERO)

\* d <= e for two digit strings of one length
LexLeq(d, e) ==
    \/ d = e
    \/ \E k \in 1..Len(d) : d[k] < e[k] /\ \A j \in 1..(k - 1) : d[j] = e[j]

\* 9223372036854775807 and 9223372036854775808
LimitPositive == <<57, 50, 50, 51, 51, 55, 50, 48, 51, 54, 56, 53, 52, 55, 55, 53, 56, 48, 55>>
LimitNegative == <<57, 50, 50, 51, 51, 55, 50, 48, 51, 54, 56, 53, 52, 55, 55, 53, 56, 48, 56>>

\* the signed decimal t lies in -2^63 .. 2^63 - 1
InI64Range(t) ==
    LET d == StripZeros(DigitsOf(t))
    IN  \/ Len(d) < 19
        \/ Len(d) = 19 /\ LexLeq(d, IF HasMinus(t) THEN LimitNegative ELSE LimitPositive)

IsNumber(t) == IsSignedDecimal(t) /\ InI64Range(t)

\* the i64 a number in range stands for, read off its digits by position
NumberOf(t) ==
    LET d == StripZeros(DigitsOf(t))
        n == Len(d)
        l == NatOfDigits(SubSeq(d, IF n > 7 THEN n - 6 ELSE 1, n))
        m == IF n > 7 THEN NatOfDigits(SubSeq(d, IF n > 14 THEN n - 13 ELSE 1, n - 7)) ELSE 0
        h == IF n > 14 THEN NatOfDigits(SubSeq(d, 1, n - 14)) ELSE 0
    IN  I64(HasMinus(t), <<h, m, l>>)

\* data is a sigil, a field and CR LF, and then `rest`
HasHeader(s) == Len(s) >= 1 /\ CrlfAt(s, 1 + Len(FieldOf(Tail(s))))
HeaderField(s) == FieldOf(Tail(s))
HeaderRest(s) == SliceFrom(s, 1 + Len(FieldOf(Tail(s))) + 2)

\* a count that is at most `most` (a count of more than four digits is not)
CountAtMost(t, most) ==
    LET d == StripZeros(DigitsOf(t))
    IN  ~IsNegative(NumberOf(t)) /\ Len(d) <= 4 /\ NatOfDigits(d) <= most

CountOf(t) == NatOfDigits(StripZeros(DigitsOf(t)))

\* n values decoded one after another from b
RECURSIVE Consecutive(_, _, _)
Consecutive(b, n, items) ==
    IF n = 0 THEN [ok |-> TRUE, items |-> items, left |-> b]
    ELSE LET r == Value_parse(b)
         IN  IF r.kind = "Ok"
             THEN Consecutive(r.left, n - 1, Append(items, r.out))
             ELSE [ok |-> FALSE]

----------------------------------------------------------------------------
(* The claims *)

\* C1, as stated: for every Value v, Value::parse of the bytes encode
\* produces for v succeeds with an empty remainder and a value equal to v.
C1_RoundTripOfEveryValue == pc = "roundtrip" => outcome = Ok(<<>>, value)

\* C1, amended: for every Value v none of whose SimpleString or Error
\* payloads, at any depth, holds a CR LF pair, Value::parse of the bytes
\* encode produces for v succeeds with an empty remainder and a value
\* equal to v.
C1_RoundTrip ==
    pc = "roundtrip" /\ TerminatorFree(value) => outcome = Ok(<<>>, value)

\* a nested array with a null and an empty-array item came back whole
C1_Witness ==
    /\ pc = "roundtrip"
    /\ TerminatorFree(value)
    /\ IsNested(value)
    /\ \E k \in 1..2 : is_null(Unwrap(Unwrap(value.array)[1].array)[k])
    /\ outcome = Ok(<<>>, value)

\* C2: for every Value v and every proper prefix p of encode(v),
\* Value::parse(p) returns NeedMoreData.
C2_TruncatedNeedsMoreData == pc = "truncated" => outcome = NeedMoreData

\* C3: the number of bytes encode appends for v equals v.serialize_len(),
\* and the assert_eq!(len, value_len) fails at no level of the recursion.
C3_LengthAgreement ==
    pc \in {"encoded", "encode_panicked"} =>
        /\ pc = "encoded"
        /\ Len(buf) - Len(buf0) = serialize_len(value)
        /\ ret = serialize_len(value)

\* a nested array was encoded after bytes already in the buffer
C3_Witness ==
    /\ pc = "encoded"
    /\ IsNested(value)
    /\ buf0 # <<>>
    /\ ret = serialize_len(value)

\* The decimal text encode must write for a count or an integer: a '-'
\* first exactly when the number is negative, then its digits with no
\* leading zero and no '+'.
IsCanonicalDigits(d) == Len(d) >= 1 /\ AllDigits(d) /\ (Len(d) > 1 => d[1] # ZERO)

IsDecimalOfI64(t, i) ==
    /\ IsSignedDecimal(t)
    /\ IsCanonicalDigits(DigitsOf(t))
    /\ HasMinus(t) = IsNegative(i)
    /\ InI64Range(t)
    /\ NumberOf(t) = i

IsDecimalOfCount(t, n) ==
    IsCanonicalDigits(t) /\ Len(t) <= 9 /\ NatOfDigits(t) = n

StartsWith(w, p) == Len(w) >= Len(p) /\ SliceTo(w, Len(p)) = p

\* What is left of w after the wire form of v at its head: Some(rest), or
\* None when w does not start with the wire form of v.
RECURSIVE WireRest(_, _)
RECURSIVE WireRestItems(_, _, _)
WireRestItems(items, k, w) ==
    IF k > Len(items) THEN Some(w)
    ELSE LET r == WireRest(items[k], w)
         IN  IF IsSome(r) THEN WireRestItems(items, k + 1, Unwrap(r)) ELSE None

WireLine(sigil, payload, w) ==
    LET expect == <<sigil>> \o payload \o CRLF_BYTES
    IN  IF StartsWith(w, expect) THEN Some(SliceFrom(w, Len(expect))) ELSE None

WireRest(v, w) ==
    CASE v.tag = "SimpleString" -> WireLine(PLUS, v.str, w)
      [] v.tag = "Error" -> WireLine(MINUS, v.str, w)
      [] v.tag = "Integer" ->
            IF Len(w) >= 1 /\ w[1] = COLON /\ HasHeader(w)
                  /\ IsDecimalOfI64(HeaderField(w), v.int)
            THEN Some(HeaderRest(w)) ELSE None
      [] v.tag = "BulkString" /\ ~IsSome(v.bulk) ->
            WireLine(DOLLAR, <<MINUS, ZERO + 1>>, w)
      [] v.tag = "BulkString" /\ IsSome(v.bulk) ->
            IF Len(w) >= 1 /\ w[1] = DOLLAR /\ HasHeader(w)
                  /\ IsDecimalOfCount(HeaderField(w), Len(Unwrap(v.bulk)))
                  /\ StartsWith(HeaderRest(w), Unwrap(v.bulk) \o CRLF_BYTES)
            THEN Some(SliceFrom(HeaderRest(w), Len(Unwrap(v.bulk)) + 2)) ELSE None
      [] v.tag = "Array" /\ ~IsSome(v.array) ->
            WireLine(STAR, <<MINUS, ZERO + 1>>, w)
      [] v.tag = "Array" /\ IsSome(v.array) ->
            IF Len(w) >= 1 /\ w[1] = STAR /\ HasHeader(w)
                  /\ IsDecimalOfCount(HeaderField(w), Len(Unwrap(v.array)))
            THEN WireRestItems(Unwrap(v.array), 1, HeaderRest(w)) ELSE None

\* C4: after encode(v, buf) the buffer is what it was, followed by the
\* wire form of v and nothing else, and the count returned is the length
\* of that wire form.
C4_AppendsWireForm ==
    pc \in {"encoded", "encode_panicked"} =>
        /\ pc = "encoded"
        /\ StartsWith(buf, buf0)
        /\ WireRest(value, SliceFrom(buf, Len(buf0))) = Some(<<>>)
        /\ ret = Len(buf) - Len(buf0)

\* an array holding a negative integer was appended to a buffer in use
C4_Witness ==
    /\ pc = "encoded"
    /\ buf0 # <<>>
    /\ IsArrayOfSome(value)
    /\ \E k \in 1..Len(Unwrap(value.array)) :
          /\ Unwrap(value.array)[k].tag = "Integer"
          /\ IsNegative(Unwrap(value.array)[k].int)
    /\ ret = Len(buf) - Len(buf0)

\* C5: a successful Value::parse of a non-empty input returns the variant
\* its first byte fixes, and an input whose first byte is none of the five
\* sigils yields InvalidData whatever follows.
C5_DispatchByFirstByte ==
    Decoded /\ Len(data) >= 1 =>
        /\ outcome.kind = "Ok" =>
              data[1] \in Sigils /\ outcome.out.tag = VariantOf(data[1])
        /\ data[1] \notin Sigils => outcome = InvalidData

\* '#' before bytes that decode by themselves was rejected
C5_Witness ==
    /\ pc = "parsed"
    /\ Len(data) >= 2
    /\ data[1] \notin Sigils
    /\ Value_parse(Tail(data)).kind = "Ok"
    /\ outcome = InvalidData

\* C6: for an input that is '+' or '-', a payload p holding no CR LF pair,
\* CR LF and then any bytes rest, the decode returns p as the payload and
\* rest as the remainder.
C6_LineEndsAtFirstCrlf ==
    Decoded /\ Len(data) >= 1 /\ data[1] \in {PLUS, MINUS} =>
        \A n \in 0..(Len(data) - 3) :
            CrlfAt(Tail(data), n) /\ NoCrlfPair(SliceTo(Tail(data), n)) =>
                outcome = Ok(SliceFrom(Tail(data), n + 2),
                             IF data[1] = PLUS
                             THEN SimpleString(SliceTo(Tail(data), n))
                             ELSE Error(SliceTo(Tail(data), n)))

\* a payload ending in a lone CR was returned whole, with bytes left over
C6_Witness ==
    /\ pc = "parsed"
    /\ Len(data) >= 1
    /\ data[1] = MINUS
    /\ outcome.kind = "Ok"
    /\ outcome.out = Error(<<LF, CR>>)
    /\ outcome.left = <<PLUS, LOWER_A>> \o CRLF_BYTES

\* C7: after '$', a signed decimal length L and CR LF: a negative L yields
\* BulkString(None) and the remainder starts right after that CR LF; L >= 0
\* yields BulkString(Some(s)) with s the next L bytes as they are, exactly
\* when CR LF follows them, and that CR LF is consumed; when the L bytes
\* are there and the two bytes after them are not CR LF the result is
\* InvalidData.
C7_BulkString ==
    Decoded /\ Len(data) >= 1 /\ data[1] = DOLLAR /\ HasHeader(data)
            /\ IsNumber(HeaderField(data)) =>
        IF IsNegative(NumberOf(HeaderField(data)))
        THEN outcome = Ok(HeaderRest(data), BulkString(None))
        ELSE IF CountAtMost(HeaderField(data), Len(HeaderRest(data)))
                  /\ CrlfAt(HeaderRest(data), CountOf(HeaderField(data)))
        THEN outcome =
                Ok(SliceFrom(HeaderRest(data), CountOf(HeaderField(data)) + 2),
                   BulkString(Some(SliceTo(HeaderRest(data), CountOf(HeaderField(data))))))
        ELSE /\ outcome.kind # "Ok"
             /\ CountAtMost(HeaderField(data), Len(HeaderRest(data)) - 2) =>
                    outcome = InvalidData

\* a payload that is itself CR LF was taken as the two bytes it is
C7_Witness ==
    /\ pc = "parsed"
    /\ Len(data) >= 1
    /\ data[1] = DOLLAR
    /\ outcome.kind = "Ok"
    /\ outcome.out = BulkString(Some(CRLF_BYTES))
    /\ outcome.left = <<LOWER_A>>

\* C8: after '*', a signed decimal count N and CR LF: a negative N yields
\* Array(None) and N = 0 yields Array(Some(empty)), nothing further being
\* consumed; a positive N yields Array(Some(items)) with exactly the N
\* values decoded one after another from the following bytes, the
\* remainder starting after the N-th; when one of the N fails to decode
\* the array decode fails.
C8_Array ==
    Decoded /\ Len(data) >= 1 /\ data[1] = STAR /\ HasHeader(data)
            /\ IsNumber(HeaderField(data)) =>
        IF IsNegative(NumberOf(HeaderField(data)))
        THEN outcome = Ok(HeaderRest(data), Array(None))
        ELSE IF IsZero(NumberOf(HeaderField(data)))
        THEN outcome = Ok(HeaderRest(data), Array(Some(<<>>)))
        ELSE IF CountAtMost(HeaderField(data), Len(HeaderRest(data)))
                  /\ Consecutive(HeaderRest(data), CountOf(HeaderField(data)), <<>>).ok
        THEN LET c == Consecutive(HeaderRest(data), CountOf(HeaderField(data)), <<>>)
             IN  /\ outcome = Ok(c.left, Array(Some(c.items)))
                 /\ Len(Unwrap(outcome.out.array)) = CountOf(HeaderField(data))
        ELSE outcome.kind # "Ok"

\* two items, the first an array, decoded depth-first in wire order
C8_Witness ==
    /\ pc = "parsed"
    /\ Len(data) >= 1
    /\ data[1] = STAR
    /\ outcome.kind = "Ok"
    /\ outcome.out = Array(Some(<<Array(Some(<<Integer(I64Of(1))>>)),
                                  SimpleString(<<LOWER_A>>)>>))
    /\ outcome.left = <<>>

\* C9: in an Integer value and in a bulk or array length, an optional
\* single '-' and one or more digits parse to their base-10 value as an
\* i64, leading zeros and -9223372036854775808 included; a bare '-', no
\* digits, a leading '+' and a value outside the i64 range are InvalidData.
C9_NumericField ==
    Decoded /\ Len(data) >= 1 /\ data[1] \in {COLON, DOLLAR, STAR}
            /\ HasHeader(data) =>
        IF IsNumber(HeaderField(data))
        THEN data[1] = COLON =>
                outcome = Ok(HeaderRest(data), Integer(NumberOf(HeaderField(data))))
        ELSE outcome = InvalidData

\* the least i64 was decoded
C9_Witness ==
    /\ pc = "parsed"
    /\ Len(data) >= 1
    /\ data[1] = COLON
    /\ HasHeader(data)
    /\ HeaderField(data) = <<MINUS>> \o LimitNegative
    /\ outcome.kind = "Ok"
    /\ outcome.out = Integer(I64Min)

\* C10: Value::parse returns a value with a remainder, NeedMoreData or
\* InvalidData for every byte sequence, and never aborts.
C10_DecodeIsTotal ==
    Decoded => outcome.kind \in {"Ok", "NeedMoreData", "InvalidData"}

====
